---- MODULE Spec2Model ----
(***************************************************************************)
(* State-machine model of bot.py: the lazily created asyncpg pool          *)
(* (get_db_pool), schema creation (init_db), the detached user upsert      *)
(* (save_user_async / ensure_user_handler), the /start reply (hello), the  *)
(* start-up hook (post_init), shutdown and main.                           *)
(*                                                                         *)
(* Every await of the source is a point where the asyncio loop may run     *)
(* another coroutine, so every coroutine is cut into one action per await. *)
(* The outcome of a call into the store (create_pool, acquire, execute) is *)
(* chosen nondeterministically: the store may accept or fail any call.     *)
(***************************************************************************)
EXTENDS Naturals, FiniteSets, Sequences, TLC

\* ------------------------------------------------------------- bounds
\* Number of inbound updates delivered during one run of the process.
MaxUpdates == 2
\* Largest value of the store clock (now()).
MaxTime == 2

\* ------------------------------------------------------------ constants
\* _db_pool = None
NoPool == 0
\* The coroutine of init_db run by post_init; tasks are numbered 1..MaxUpdates.
InitCaller == 0

Updates == 1..MaxUpdates
Callers == {InitCaller} \cup Updates

None == "None"

\* update.effective_user of an inbound update: absent (a channel post), or
\* a Telegram user with the fields save_user_async reads.
NoUser == [id |-> 0, username |-> None, first_name |-> None,
           last_name |-> None, language_code |-> None]
Ann == [id |-> 42, username |-> "ann", first_name |-> "Ann",
        last_name |-> None, language_code |-> "en"]
Anna == [id |-> 42, username |-> "anna", first_name |-> "Anna",
         last_name |-> "Lee", language_code |-> "ru"]
Bob == [id |-> 7, username |-> None, first_name |-> "Bob",
        last_name |-> None, language_code |-> None]

\* The updates the dispatcher may deliver: a /start command of a user, or
\* another update matched by filters.ALL, with or without an effective user.
UpdateInputs ==
    {[kind |-> "start", user |-> Ann],
     [kind |-> "other", user |-> Anna],
     [kind |-> "other", user |-> NoUser]}

NoUpdate == [kind |-> "none", user |-> NoUser]

\* "+ INTERVAL '3 hours'": every timestamp is the store clock shifted to
\* UTC+3; the store clock counts hours.
MoscowOffset == 3

\* A row left in the users table by an earlier run of the process: Bob,
\* upserted once at store time 0.
OldRow == [id |-> 1, telegram_id |-> Bob.id, username |-> Bob.username,
           first_name |-> Bob.first_name, last_name |-> Bob.last_name,
           language_code |-> Bob.language_code,
           created_at |-> MoscowOffset, updated_at |-> MoscowOffset,
           last_active_at |-> MoscowOffset]

VARIABLES
    token,         \* os.getenv('token') is set
    database_url,  \* os.getenv('DATABASE_URL') is set
    mainpc,        \* position of main / run_polling
    outcome,       \* how run_polling ended
    exitCode,      \* exit code of the process, 0..1, once mainpc = "exited"
    _db_pool,      \* the module global: NoPool or the id of a pool
    pools,         \* pools[p]: state of the p-th pool create_pool returned
    pc,            \* pc[c]: position of coroutine c (init_db or a task)
    pool,          \* pool[c]: the local variable pool of coroutine c
    attempts,      \* attempts[c]: create_pool calls made by c's get_db_pool
    err,           \* err[c]: the exception that ended coroutine c
    upd,           \* upd[u]: the u-th update delivered
    hpc,           \* hpc[u]: position of the dispatcher on update u
    replied,       \* replied[u]: reply_text of hello has been sent for u
    tableExists,   \* the users table exists in the store
    indexExists,   \* idx_users_telegram_id exists in the store
    users,         \* rows of the users table
    nextSerial,    \* next value of the sequence behind users.id
    now            \* store clock: value now() returns

envVars == <<token, database_url>>
mainVars == <<mainpc, outcome, exitCode>>
poolVars == <<_db_pool, pools>>
coVars == <<pc, pool, attempts, err>>
updVars == <<upd, hpc, replied>>
storeVars == <<tableExists, indexExists, users, nextSerial, now>>
vars == <<token, database_url, mainpc, outcome, exitCode, _db_pool, pools,
          pc, pool, attempts, err, upd, hpc, replied,
          tableExists, indexExists, users, nextSerial, now>>

NoAttempts == [default |-> 0, relaxed |-> 0]

Init ==
    /\ token \in BOOLEAN
    /\ database_url \in BOOLEAN
    /\ mainpc = "main"
    /\ outcome = None
    /\ exitCode = 0
    /\ _db_pool = NoPool
    /\ pools = <<>>
    /\ pc = [c \in Callers |-> "idle"]
    /\ pool = [c \in Callers |-> NoPool]
    /\ attempts = [c \in Callers |-> NoAttempts]
    /\ err = [c \in Callers |-> None]
    /\ upd = [u \in Updates |-> NoUpdate]
    /\ hpc = [u \in Updates |-> "none"]
    /\ replied = [u \in Updates |-> FALSE]
    /\ tableExists \in BOOLEAN
    /\ indexExists = tableExists
    /\ users \in IF tableExists THEN {{}, {OldRow}} ELSE {{}}
    /\ nextSerial = Cardinality(users) + 1
    /\ now = 0

\* ------------------------------------------------------------ helpers
\* The asyncio loop of run_polling is running: coroutines and tasks advance
\* only then (run_polling closes the loop before it returns to main).
LoopRunning == mainpc \in {"init_db", "polling", "closing"}

\* A save_user_async without its try/except: nothing is caught.
SaveUserExceptNothing(e) == FALSE

\* A save_user_async that catches the errors of the store only
\* ("except asyncpg.PostgresError"-like), not those of its own code.
SaveUserExceptStoreOnly(e) ==
    e \in {"OSError", "InterfaceError", "PostgresError", "UndefinedTableError"}

\* save_user_async, "except Exception as e": the exceptions the handler
\* around the whole body catches (and prints).
SaveUserExcept(e) ==
    e \in {"ValueError", "OSError", "InterfaceError", "PostgresError",
           "UndefinedTableError", "AttributeError"}

\* A post_init without the try/except around init_db: nothing is caught.
PostInitExceptNothing(e) == FALSE

\* post_init, "except Exception as e" around "await init_db()".
PostInitExcept(e) ==
    e \in {"ValueError", "OSError", "InterfaceError", "PostgresError",
           "UndefinedTableError", "AttributeError"}

\* Coroutine c raises e. In a task the try/except of save_user_async decides
\* whether it is logged there or leaves the coroutine; init_db has no
\* handler of its own, so e leaves it (towards post_init). The frame of the
\* coroutine, with its local pool, is gone.
Raise(c, e) ==
    /\ pc' = [pc EXCEPT ![c] = IF c \in Updates /\ SaveUserExcept(e)
                                THEN "logged" ELSE "raised"]
    /\ err' = [err EXCEPT ![c] = e]
    /\ pool' = [pool EXCEPT ![c] = NoPool]
    /\ attempts' = [attempts EXCEPT ![c] = NoAttempts]

\* Coroutine c returns normally; its frame is gone.
Return(c) ==
    /\ pc' = [pc EXCEPT ![c] = "done"]
    /\ pool' = [pool EXCEPT ![c] = NoPool]
    /\ attempts' = [attempts EXCEPT ![c] = NoAttempts]
    /\ UNCHANGED err

\* ------------------------------------------------------------ get_db_pool
\* Lines 19-31: the test of the global, the DATABASE_URL check and the call
\* of create_pool under the default SSL context run without an await in
\* between; the coroutine is then suspended inside create_pool.
get_db_pool(c) ==
    /\ LoopRunning
    /\ pc[c] = "get_db_pool"
    /\ IF _db_pool # NoPool
       THEN /\ pool' = [pool EXCEPT ![c] = _db_pool]
            /\ pc' = [pc EXCEPT ![c] = "acquire"]
            /\ UNCHANGED <<attempts, err>>
       ELSE IF ~database_url
       THEN Raise(c, "ValueError")
       ELSE /\ pc' = [pc EXCEPT ![c] = "create_default"]
            /\ attempts' = [attempts EXCEPT ![c].default = @ + 1]
            /\ UNCHANGED <<pool, err>>
    /\ UNCHANGED <<envVars, mainVars, poolVars, updVars, storeVars>>

\* A get_db_pool without the fallback: a failure of create_pool under the
\* default context is raised to the caller at once.
create_pool_default_no_fallback(c) ==
    /\ LoopRunning
    /\ pc[c] = "create_default"
    /\ \E ok \in BOOLEAN :
        IF ok
        THEN /\ pools' = Append(pools, "open")
             /\ _db_pool' = Len(pools) + 1
             /\ pool' = [pool EXCEPT ![c] = Len(pools) + 1]
             /\ pc' = [pc EXCEPT ![c] = "acquire"]
             /\ UNCHANGED <<attempts, err>>
        ELSE /\ Raise(c, "OSError")
             /\ UNCHANGED poolVars
    /\ UNCHANGED <<envVars, mainVars, updVars, storeVars>>

\* Lines 31-46: create_pool under the default context returns a pool, which
\* is stored in the global and returned, or raises; the except branch then
\* calls create_pool under the relaxed context.
create_pool_default(c) ==
    /\ LoopRunning
    /\ pc[c] = "create_default"
    /\ \E ok \in BOOLEAN :
        IF ok
        THEN /\ pools' = Append(pools, "open")
             /\ _db_pool' = Len(pools) + 1
             /\ pool' = [pool EXCEPT ![c] = Len(pools) + 1]
             /\ pc' = [pc EXCEPT ![c] = "acquire"]
             /\ UNCHANGED <<attempts, err>>
        ELSE /\ pc' = [pc EXCEPT ![c] = "create_relaxed"]
             /\ attempts' = [attempts EXCEPT ![c].relaxed = @ + 1]
             /\ UNCHANGED <<poolVars, pool, err>>
    /\ UNCHANGED <<envVars, mainVars, updVars, storeVars>>

\* A get_db_pool that memoizes a failed establishment: when the relaxed
\* attempt fails too, the global is left set to a pool that was never
\* established.
create_pool_relaxed_memoizes_failure(c) ==
    /\ LoopRunning
    /\ pc[c] = "create_relaxed"
    /\ \E ok \in BOOLEAN :
        IF ok
        THEN /\ pools' = Append(pools, "open")
             /\ _db_pool' = Len(pools) + 1
             /\ pool' = [pool EXCEPT ![c] = Len(pools) + 1]
             /\ pc' = [pc EXCEPT ![c] = "acquire"]
             /\ UNCHANGED <<attempts, err>>
        ELSE /\ Raise(c, "OSError")
             /\ _db_pool' = Len(pools) + 1
             /\ UNCHANGED pools
    /\ UNCHANGED <<envVars, mainVars, updVars, storeVars>>

\* Lines 43-50: create_pool under the relaxed context returns a pool, which
\* is stored in the global and returned, or raises, and the exception is
\* re-raised to the caller.
create_pool_relaxed(c) ==
    /\ LoopRunning
    /\ pc[c] = "create_relaxed"
    /\ \E ok \in BOOLEAN :
        IF ok
        THEN /\ pools' = Append(pools, "open")
             /\ _db_pool' = Len(pools) + 1
             /\ pool' = [pool EXCEPT ![c] = Len(pools) + 1]
             /\ pc' = [pc EXCEPT ![c] = "acquire"]
             /\ UNCHANGED <<attempts, err>>
        ELSE /\ Raise(c, "OSError")
             /\ UNCHANGED poolVars
    /\ UNCHANGED <<envVars, mainVars, updVars, storeVars>>

\* "async with pool.acquire() as conn" of init_db (line 56) and of
\* save_user_async (line 83): a pool that is closing or closed refuses, an
\* open pool hands out a connection unless the store fails.
acquire(c) ==
    /\ LoopRunning
    /\ pc[c] = "acquire"
    /\ IF pools[pool[c]] # "open"
       THEN Raise(c, "InterfaceError")
       ELSE \E ok \in BOOLEAN :
            IF ok
            THEN /\ pc' = [pc EXCEPT ![c] = IF c = InitCaller
                                             THEN "create_table" ELSE "execute"]
                 /\ UNCHANGED <<pool, attempts, err>>
            ELSE Raise(c, "OSError")
    /\ UNCHANGED <<envVars, mainVars, poolVars, updVars, storeVars>>

\* ------------------------------------------------------------ init_db
\* DROP TABLE followed by CREATE TABLE: the table is always new and empty.
CreateTableDropFirst(exists, rows) == {}

\* Lines 57-69: the rows of users after CREATE TABLE IF NOT EXISTS: an
\* existing table is left as it is, a new one is empty.
CreateTableIfNotExists(exists, rows) == IF exists THEN rows ELSE {}

\* Lines 57-69: CREATE TABLE IF NOT EXISTS users.
create_table ==
    /\ LoopRunning
    /\ pc[InitCaller] = "create_table"
    /\ \E ok \in BOOLEAN :
        IF ok
        THEN /\ tableExists' = TRUE
             /\ users' = CreateTableIfNotExists(tableExists, users)
             /\ pc' = [pc EXCEPT ![InitCaller] = "create_index"]
             /\ UNCHANGED <<pool, attempts, err>>
        ELSE /\ Raise(InitCaller, "PostgresError")
             /\ UNCHANGED <<tableExists, users>>
    /\ UNCHANGED <<envVars, mainVars, poolVars, updVars,
                   indexExists, nextSerial, now>>

\* Lines 71-74: CREATE INDEX IF NOT EXISTS idx_users_telegram_id.
create_index ==
    /\ LoopRunning
    /\ pc[InitCaller] = "create_index"
    /\ \E ok \in BOOLEAN :
        IF ok
        THEN /\ indexExists' = TRUE
             /\ Return(InitCaller)
        ELSE /\ Raise(InitCaller, "PostgresError")
             /\ UNCHANGED indexExists
    /\ UNCHANGED <<envVars, mainVars, poolVars, updVars,
                   tableExists, users, nextSerial, now>>

\* ------------------------------------------------------------ save_user_async
\* The values now() may return to the next statement: the store clock does
\* not run backwards, and it may or may not have advanced since the last one.
StoreTimes == {t \in now..MaxTime : t <= now + 1}

\* The row an INSERT of the statement adds, with the shift of each of the
\* three timestamps given separately.
NewRow(serial, t, user, created, updated, active) ==
    [id |-> serial,
     telegram_id |-> user.id,
     username |-> user.username,
     first_name |-> user.first_name,
     last_name |-> user.last_name,
     language_code |-> user.language_code,
     created_at |-> t + created,
     updated_at |-> t + updated,
     last_active_at |-> t + active]

\* An upsert whose column defaults lack the shift to UTC+3 that the
\* statement applies to last_active_at.
UpsertUnshiftedDefaults(rows, serial, t, user) ==
    IF \E r \in rows : r.telegram_id = user.id
    THEN {IF r.telegram_id = user.id
          THEN [r EXCEPT !.username = user.username,
                         !.first_name = user.first_name,
                         !.last_name = user.last_name,
                         !.language_code = user.language_code,
                         !.last_active_at = t + MoscowOffset,
                         !.updated_at = t + MoscowOffset]
          ELSE r : r \in rows}
    ELSE rows \cup {NewRow(serial, t, user, 0, 0, MoscowOffset)}

\* An upsert with ON CONFLICT (telegram_id) DO NOTHING.
UpsertDoNothing(rows, serial, t, user) ==
    IF \E r \in rows : r.telegram_id = user.id
    THEN rows
    ELSE rows \cup {NewRow(serial, t, user, MoscowOffset, MoscowOffset, MoscowOffset)}

\* A plain INSERT into a table whose telegram_id is not UNIQUE.
UpsertAlwaysInsert(rows, serial, t, user) ==
    rows \cup {NewRow(serial, t, user, MoscowOffset, MoscowOffset, MoscowOffset)}

\* An upsert whose DO UPDATE clause sets only username and first_name (and
\* the timestamps): last_name and language_code keep the values of an
\* earlier call.
UpsertNamesOnly(rows, serial, t, user) ==
    IF \E r \in rows : r.telegram_id = user.id
    THEN {IF r.telegram_id = user.id
          THEN [r EXCEPT !.username = user.username,
                         !.first_name = user.first_name,
                         !.last_active_at = t + MoscowOffset,
                         !.updated_at = t + MoscowOffset]
          ELSE r : r \in rows}
    ELSE rows \cup {NewRow(serial, t, user, MoscowOffset, MoscowOffset, MoscowOffset)}

\* Lines 87-104, the statement as the store executes it at time t with the
\* next sequence value serial: INSERT a row whose created_at and updated_at
\* take their column DEFAULT (line 65-66) and whose last_active_at is given,
\* all of them now() + 3 hours; ON CONFLICT (telegram_id) DO UPDATE the four
\* profile columns, last_active_at and updated_at of the conflicting row.
Upsert(rows, serial, t, user) ==
    IF \E r \in rows : r.telegram_id = user.id
    THEN {IF r.telegram_id = user.id
          THEN [r EXCEPT !.username = user.username,
                         !.first_name = user.first_name,
                         !.last_name = user.last_name,
                         !.language_code = user.language_code,
                         !.last_active_at = t + MoscowOffset,
                         !.updated_at = t + MoscowOffset]
          ELSE r : r \in rows}
    ELSE rows \cup {NewRow(serial, t, user, MoscowOffset, MoscowOffset, MoscowOffset)}

\* A save_user_async that retries: a failed statement sends the task back
\* to take a connection and execute the statement again.
execute_retries(u) ==
    /\ LoopRunning
    /\ pc[u] = "execute"
    /\ IF upd[u].user = NoUser
       THEN /\ Raise(u, "AttributeError")
            /\ UNCHANGED storeVars
       ELSE \E ok \in BOOLEAN :
            IF ~ok
            THEN /\ pc' = [pc EXCEPT ![u] = "acquire"]
                 /\ UNCHANGED <<pool, attempts, err, storeVars>>
            ELSE IF ~tableExists
            THEN /\ Raise(u, "UndefinedTableError")
                 /\ UNCHANGED storeVars
            ELSE \E t \in StoreTimes :
                 /\ users' = Upsert(users, nextSerial, t, upd[u].user)
                 /\ nextSerial' = nextSerial + 1
                 /\ now' = t
                 /\ Return(u)
                 /\ UNCHANGED <<tableExists, indexExists>>
    /\ UNCHANGED <<envVars, mainVars, poolVars, updVars>>

\* Lines 87-104: the arguments are evaluated first (user.id on an absent
\* effective_user raises AttributeError), then the statement is sent: it
\* fails when the table is missing or the store fails, else it is executed
\* as one statement. The sequence value is drawn before the conflict test.
execute(u) ==
    /\ LoopRunning
    /\ pc[u] = "execute"
    /\ IF upd[u].user = NoUser
       THEN /\ Raise(u, "AttributeError")
            /\ UNCHANGED storeVars
       ELSE \E ok \in BOOLEAN :
            IF ~ok
            THEN /\ Raise(u, "PostgresError")
                 /\ UNCHANGED storeVars
            ELSE IF ~tableExists
            THEN /\ Raise(u, "UndefinedTableError")
                 /\ UNCHANGED storeVars
            ELSE \E t \in StoreTimes :
                 /\ users' = Upsert(users, nextSerial, t, upd[u].user)
                 /\ nextSerial' = nextSerial + 1
                 /\ now' = t
                 /\ Return(u)
                 /\ UNCHANGED <<tableExists, indexExists>>
    /\ UNCHANGED <<envVars, mainVars, poolVars, updVars>>

\* ------------------------------------------------------------ dispatcher
\* No update is between its delivery and the return of its last handler.
DispatcherIdle == \A u \in Updates : hpc[u] \in {"none", "done"}

\* run_polling delivers the next update; the Application of line 162 is
\* built without concurrent_updates, so updates are processed one at a time.
fetch_update(u) ==
    /\ mainpc = "polling"
    /\ DispatcherIdle
    /\ hpc[u] = "none"
    /\ \A v \in Updates : v < u => hpc[v] = "done"
    /\ \E i \in UpdateInputs : upd' = [upd EXCEPT ![u] = i]
    /\ hpc' = [hpc EXCEPT ![u] = "group-1"]
    /\ UNCHANGED <<envVars, mainVars, poolVars, coVars, replied, storeVars>>

\* An ensure_user_handler that awaits save_user_async(update) instead of
\* detaching it: the dispatcher stays in the handler.
ensure_user_handler_awaits(u) ==
    /\ mainpc = "polling"
    /\ hpc[u] = "group-1"
    /\ pc' = [pc EXCEPT ![u] = "get_db_pool"]
    /\ hpc' = [hpc EXCEPT ![u] = "awaiting"]
    /\ UNCHANGED <<envVars, mainVars, poolVars, pool, attempts, err, upd,
                   replied, storeVars>>

\* Lines 109-113 (handler group -1, filters.ALL): create_task schedules
\* save_user_async(update) on the loop and the handler returns at once.
ensure_user_handler(u) ==
    /\ mainpc = "polling"
    /\ hpc[u] = "group-1"
    /\ pc' = [pc EXCEPT ![u] = "get_db_pool"]
    /\ hpc' = [hpc EXCEPT ![u] = "group0"]
    /\ UNCHANGED <<envVars, mainVars, poolVars, pool, attempts, err, upd,
                   replied, storeVars>>

\* Lines 116-126 (handler group 0, CommandHandler("start")): reply_text.
hello(u) ==
    /\ mainpc = "polling"
    /\ hpc[u] = "group0"
    /\ upd[u].kind = "start"
    /\ replied' = [replied EXCEPT ![u] = TRUE]
    /\ hpc' = [hpc EXCEPT ![u] = "done"]
    /\ UNCHANGED <<envVars, mainVars, poolVars, coVars, upd, storeVars>>

\* Line 169: an update that is no /start command matches no handler of
\* group 0, and its processing ends.
no_command(u) ==
    /\ mainpc = "polling"
    /\ hpc[u] = "group0"
    /\ upd[u].kind # "start"
    /\ hpc' = [hpc EXCEPT ![u] = "done"]
    /\ UNCHANGED <<envVars, mainVars, poolVars, coVars, upd, replied, storeVars>>

\* ------------------------------------------------------------ main
\* Lines 172-185 and 158-160: the exit code of the process for each way
\* main ends. The ValueError of a missing token is raised outside the try
\* and ends the process with a traceback; Conflict returns; KeyboardInterrupt
\* and every other Exception from run_polling are caught and printed, and
\* main then returns normally.
ExitCode(o) == IF o = "ValueError" THEN 1 ELSE 0

\* Lines 158-173: the token check, the build of the application and the
\* call of run_polling, which first runs post_init.
main ==
    /\ mainpc = "main"
    /\ IF ~token
       THEN /\ outcome' = "ValueError"
            /\ exitCode' = ExitCode("ValueError")
            /\ mainpc' = "exited"
       ELSE /\ mainpc' = "delete_webhook"
            /\ UNCHANGED <<outcome, exitCode>>
    /\ UNCHANGED <<envVars, poolVars, coVars, updVars, storeVars>>

\* Lines 132-142: delete_webhook succeeds or fails (a failure is caught and
\* printed, with no other effect), then init_db is called.
post_init ==
    /\ mainpc = "delete_webhook"
    /\ mainpc' = "init_db"
    /\ pc' = [pc EXCEPT ![InitCaller] = "get_db_pool"]
    /\ UNCHANGED <<envVars, outcome, exitCode, poolVars, pool, attempts, err,
                   updVars, storeVars>>

\* Lines 141-146: init_db returned or raised; an exception the handler
\* catches is printed as a warning and polling starts, any other leaves
\* post_init and stops run_polling before it polls.
post_init_return ==
    /\ mainpc = "init_db"
    /\ pc[InitCaller] \in {"done", "raised"}
    /\ IF pc[InitCaller] = "done" \/ PostInitExcept(err[InitCaller])
       THEN /\ mainpc' = "polling"
            /\ UNCHANGED outcome
       ELSE /\ mainpc' = "stopped"
            /\ outcome' = "PostInitError"
    /\ UNCHANGED <<envVars, exitCode, poolVars, coVars, updVars, storeVars>>

\* A shutdown without "if _db_pool:": close is called on None when no pool
\* was acquired, and the AttributeError leaves the hook.
shutdown_unguarded ==
    /\ \/ mainpc = "polling" /\ DispatcherIdle
       \/ mainpc = "stopped"
    /\ IF _db_pool # NoPool
       THEN /\ pools' = [pools EXCEPT ![_db_pool] = "closing"]
            /\ mainpc' = "closing"
            /\ UNCHANGED outcome
       ELSE /\ mainpc' = "except"
            /\ outcome' = "AttributeError"
            /\ UNCHANGED pools
    /\ UNCHANGED <<envVars, exitCode, _db_pool, coVars, updVars, storeVars>>

\* Lines 152-153, the post_shutdown hook: run_polling leaves its loop
\* between two updates (a stop signal, or an error of the polling) and calls
\* shutdown: "if _db_pool: await _db_pool.close()". close stops the pool
\* from handing out connections and waits for those in use.
shutdown ==
    /\ \/ mainpc = "polling" /\ DispatcherIdle
       \/ mainpc = "stopped"
    /\ IF _db_pool # NoPool
       THEN /\ pools' = [pools EXCEPT ![_db_pool] = "closing"]
            /\ mainpc' = "closing"
       ELSE /\ mainpc' = "except"
            /\ UNCHANGED pools
    /\ UNCHANGED <<envVars, outcome, exitCode, _db_pool, coVars, updVars,
                   storeVars>>

\* The coroutines that hold a connection of pool p.
Holders(p) ==
    {c \in Callers : pool[c] = p /\ pc[c] \in {"execute", "create_table", "create_index"}}

\* Lines 153-154: close, called on the pool that _db_pool referred to at
\* line 153, returns once every connection of that pool has been released;
\* shutdown does not assign the global.
shutdown_return ==
    /\ mainpc = "closing"
    /\ \E p \in 1..Len(pools) :
        /\ pools[p] = "closing"
        /\ Holders(p) = {}
        /\ pools' = [pools EXCEPT ![p] = "closed"]
    /\ mainpc' = "except"
    /\ UNCHANGED <<envVars, outcome, exitCode, _db_pool, coVars, updVars,
                   storeVars>>

\* The ways run_polling (line 173) comes back to main once the loop is
\* closed: it returns after a stop signal, or raises KeyboardInterrupt,
\* Conflict or another exception.
RunPollingOutcomes == {"return", "KeyboardInterrupt", "Conflict", "Exception"}

\* Lines 173-185: run_polling returns or raises to main, the except
\* clauses run, and the process ends: its memory (the global, the
\* coroutines, the updates) is gone, the store and the exit code remain.
main_return ==
    /\ mainpc = "except"
    /\ \E o \in RunPollingOutcomes :
        /\ outcome = "PostInitError" => o = "Exception"
        /\ outcome' = o
        /\ exitCode' = ExitCode(o)
    /\ mainpc' = "exited"
    /\ _db_pool' = NoPool
    /\ pc' = [c \in Callers |-> "idle"]
    /\ pool' = [c \in Callers |-> NoPool]
    /\ attempts' = [c \in Callers |-> NoAttempts]
    /\ err' = [c \in Callers |-> None]
    /\ upd' = [u \in Updates |-> NoUpdate]
    /\ hpc' = [u \in Updates |-> "none"]
    /\ replied' = [u \in Updates |-> FALSE]
    /\ UNCHANGED <<envVars, pools, storeVars>>

\* ------------------------------------------------------------ specification
Next ==
    \/ main
    \/ post_init
    \/ post_init_return
    \/ shutdown
    \/ shutdown_return
    \/ main_return
    \/ create_table
    \/ create_index
    \/ \E c \in Callers : get_db_pool(c)
    \/ \E c \in Callers : create_pool_default(c)
    \/ \E c \in Callers : create_pool_relaxed(c)
    \/ \E c \in Callers : acquire(c)
    \/ \E u \in Updates : execute(u)
    \/ \E u \in Updates : fetch_update(u)
    \/ \E u \in Updates : ensure_user_handler(u)
    \/ \E u \in Updates : hello(u)
    \/ \E u \in Updates : no_command(u)

Spec == Init /\ [][Next]_vars

\* The handler the dispatcher runs next for the update it is processing.
Dispatch ==
    \E u \in Updates : ensure_user_handler(u) \/ hello(u) \/ no_command(u)

\* The asyncio loop runs every coroutine that is ready: the handlers of a
\* delivered update and the continuation of post_init are not starved. No
\* fairness is assumed of the store (create_pool, acquire and execute have
\* no timeout) nor of the arrival of updates or the end of polling.
FairSpec ==
    /\ Spec
    /\ WF_vars(post_init_return)
    /\ WF_vars(Dispatch)

\* ------------------------------------------------------------ properties
\* The step in which the statement of task u is executed by the store.
Executed(u) == pc[u] = "execute" /\ pc'[u] = "done"

\* The rows of a table for telegram id i.
RowsOf(rows, i) == {r \in rows : r.telegram_id = i}

\* C1: when several callers invoke get_db_pool while _db_pool is unset,
\* create_pool succeeds at most once in total and every caller holds the
\* same pool.
C1_SinglePool ==
    /\ Len(pools) <= 1
    /\ \A c, d \in Callers :
        pool[c] # NoPool /\ pool[d] # NoPool => pool[c] = pool[d]

\* C2: a successful save_user_async for a telegram_id without a record
\* leaves exactly one record for it, whose created_at, updated_at and
\* last_active_at all equal the store time of the insert.
C2_FirstUpsert ==
    [][\A u \in Updates :
        Executed(u) /\ RowsOf(users, upd[u].user.id) = {} =>
            /\ Cardinality(RowsOf(users', upd[u].user.id)) = 1
            /\ \A r \in RowsOf(users', upd[u].user.id) :
                /\ r.created_at = now' + MoscowOffset
                /\ r.updated_at = r.created_at
                /\ r.last_active_at = r.created_at]_vars

\* A first upsert has been executed at store time 1.
C2_Witness ==
    \E u \in Updates :
        /\ pc[u] = "done"
        /\ nextSerial = 2
        /\ \E r \in users : r.id = 1 /\ r.created_at = 1 + MoscowOffset

\* C3: a successful save_user_async for a telegram_id that has a record
\* keeps telegram_id and created_at of that record, sets the four profile
\* fields to the call's inputs, and sets updated_at and last_active_at to
\* the store time of the call, never to an earlier value than they had.
C3_LaterUpsert ==
    [][\A u \in Updates :
        Executed(u) =>
            \A r \in RowsOf(users, upd[u].user.id) :
                \E q \in users' :
                    /\ q.id = r.id
                    /\ q.telegram_id = r.telegram_id
                    /\ q.created_at = r.created_at
                    /\ q.username = upd[u].user.username
                    /\ q.first_name = upd[u].user.first_name
                    /\ q.last_name = upd[u].user.last_name
                    /\ q.language_code = upd[u].user.language_code
                    /\ q.updated_at = now' + MoscowOffset
                    /\ q.last_active_at = now' + MoscowOffset
                    /\ q.updated_at >= r.updated_at
                    /\ q.last_active_at >= r.last_active_at]_vars

\* Ann's record has been overwritten by a later upsert as Anna.
C3_Witness ==
    \E r \in users :
        /\ r.telegram_id = 42
        /\ r.first_name = "Anna"
        /\ r.updated_at > r.created_at
        /\ \E u \in Updates : pc[u] = "done" /\ upd[u].user = Anna

\* C4: the users table never holds two records of one telegram_id, and a
\* record that exists stays, with its id, telegram_id and created_at, in
\* every later state.
C4_UniqueAndKept ==
    /\ [](\A r, q \in users : r.telegram_id = q.telegram_id => r = q)
    /\ [][\A r \in users :
            \E q \in users' :
                /\ q.id = r.id
                /\ q.telegram_id = r.telegram_id
                /\ q.created_at = r.created_at]_vars

\* shutdown has returned after init_db and two executed upserts of one
\* telegram_id.
C4_Witness ==
    /\ mainpc = "except"
    /\ pc[InitCaller] = "done"
    /\ \A u \in Updates : pc[u] = "done" /\ upd[u].user.id = 42
    /\ Cardinality(RowsOf(users, 42)) = 1
    /\ OldRow \in users

\* C5: whatever step of the background upsert fails, no exception leaves
\* save_user_async (so none reaches ensure_user_handler, which has already
\* returned), and a /start update whose upsert failed is replied to.
C5_FailureSwallowed ==
    /\ [](\A u \in Updates : pc[u] # "raised")
    /\ \A u \in Updates :
        (pc[u] = "logged" /\ upd[u].kind = "start") ~> replied[u]

\* The upsert of a /start update has failed in the store and the reply has
\* been sent.
C5_Witness ==
    \E u \in Updates :
        /\ pc[u] = "logged"
        /\ err[u] = "PostgresError"
        /\ upd[u].kind = "start"
        /\ replied[u]

\* The upsert of update u has been dispatched and has not finished.
Pending(u) ==
    pc[u] \in {"get_db_pool", "create_default", "create_relaxed", "acquire", "execute"}

\* C6: once the upsert of a /start update has been dispatched, the reply of
\* hello is enabled until it is sent, whatever the state of the upsert.
C6_ReplyNeverWaits ==
    \A u \in Updates :
        pc[u] # "idle" /\ upd[u].kind = "start" /\ ~replied[u] => ENABLED hello(u)

\* Both orders in one state: one update replied to while its upsert is
\* pending, another whose upsert is committed before its reply is sent.
C6_Witness ==
    \E u, v \in Updates :
        /\ upd[u].kind = "start" /\ replied[u] /\ Pending(u)
        /\ upd[v].kind = "start" /\ ~replied[v] /\ pc[v] = "done"

\* C7: without DATABASE_URL polling never starts and no update is
\* dispatched.
C7_FailFast ==
    ~database_url =>
        /\ mainpc # "polling"
        /\ \A u \in Updates : hpc[u] = "none"

\* C8: main exits 0 on a clean interrupt and on Conflict, and non-zero on
\* any other exception raised from run_polling.
C8_ExitCodes ==
    mainpc = "exited" /\ outcome \in RunPollingOutcomes =>
        /\ outcome \in {"return", "KeyboardInterrupt", "Conflict"} => exitCode = 0
        /\ outcome = "Exception" => exitCode # 0

\* C9: when init_db fails in post_init, post_init does not raise, polling
\* starts, and every /start update delivered afterwards is replied to.
C9_DegradedStart ==
    /\ [](outcome # "PostInitError")
    /\ (pc[InitCaller] = "raised" /\ mainpc = "init_db") ~> (mainpc = "polling")
    /\ \A u \in Updates :
        (pc[InitCaller] = "raised" /\ hpc[u] # "none" /\ upd[u].kind = "start")
            ~> replied[u]

\* init_db failed on an unreachable store (both create_pool attempts) and
\* a /start update has been replied to.
C9_Witness ==
    /\ pc[InitCaller] = "raised"
    /\ err[InitCaller] = "OSError"
    /\ mainpc = "polling"
    /\ \E u \in Updates : upd[u].kind = "start" /\ replied[u]

\* C10: in one get_db_pool call the relaxed create_pool is called at most
\* once, on the failure of the default one; a pool it returns is stored in
\* _db_pool and returned; the connection error reaches the caller only
\* when the relaxed attempt has failed too.
C10_FallbackOnce ==
    /\ [](\A c \in Callers : attempts[c].default <= 1 /\ attempts[c].relaxed <= 1)
    /\ [][\A c \in Callers :
            /\ attempts'[c].relaxed > attempts[c].relaxed =>
                /\ pc[c] = "create_default"
                /\ attempts[c] = [default |-> 1, relaxed |-> 0]
                /\ UNCHANGED <<_db_pool, pools>>
            /\ pc[c] = "create_relaxed" /\ pc'[c] = "acquire" =>
                /\ Len(pools') = Len(pools) + 1
                /\ _db_pool' = Len(pools')
                /\ pool'[c] = _db_pool'
            /\ pc[c] \in {"create_default", "create_relaxed"}
                    /\ pc'[c] \in {"logged", "raised"} =>
                /\ pc[c] = "create_relaxed"
                /\ attempts[c] = [default |-> 1, relaxed |-> 1]
                /\ UNCHANGED <<_db_pool, pools>>]_vars

\* A get_db_pool call has returned the pool of its relaxed attempt.
C10_Witness ==
    \E c \in Callers :
        /\ pc[c] = "acquire"
        /\ attempts[c] = [default |-> 1, relaxed |-> 1]
        /\ pool[c] = _db_pool

\* The coroutine of update u has ended: returned, logged its exception, or
\* let it escape.
Ended(u) == pc[u] \in {"done", "logged", "raised"}

\* C11: while the process runs, the statement of an update is sent at
\* most once: the step that sends it ends the task, whether it succeeds or
\* fails; a task that has ended is never started again (no retry, no
\* further write for that update); and the step in which the upsert fails
\* sends nothing to the user and writes nothing.
C11_NoRetry ==
    [][mainpc' # "exited" =>
        \A u \in Updates :
            /\ pc[u] = "execute" /\ pc'[u] # "execute" => Ended(u)'
            /\ pc'[u] = "execute" /\ pc[u] # "execute" => pc[u] = "acquire"
            /\ pc'[u] = "acquire" /\ pc[u] # "acquire" =>
                    pc[u] \in {"get_db_pool", "create_default", "create_relaxed"}
            /\ Ended(u) => pc'[u] = pc[u]
            /\ ~Ended(u) /\ pc'[u] \in {"logged", "raised"} =>
                    UNCHANGED <<replied, users, nextSerial>>]_vars

\* The statement of a /start update failed in the store, the reply was
\* sent, and the run went on to the end of shutdown with the task ended.
C11_Witness ==
    \E u \in Updates :
        /\ pc[u] = "logged"
        /\ err[u] = "PostgresError"
        /\ replied[u]
        /\ mainpc = "except"

\* The four profile fields of row r are those of user w.
ProfileOf(r, w) ==
    /\ r.username = w.username
    /\ r.first_name = w.first_name
    /\ r.last_name = w.last_name
    /\ r.language_code = w.language_code

\* C12: with concurrent save_user_async calls for one telegram_id there is
\* one record of that telegram_id, and whenever a step changes or adds a
\* record, its four profile fields are all those of the single call whose
\* statement that step executed, never a mixture of two calls.
C12_LastWriteWins ==
    /\ [](\A u \in Updates : Cardinality(RowsOf(users, upd[u].user.id)) <= 1)
    /\ [][\A r \in users' :
            r \in users \/
            \E u \in Updates :
                /\ Executed(u)
                /\ r.telegram_id = upd[u].user.id
                /\ ProfileOf(r, upd[u].user)]_vars

\* Two calls for telegram_id 42 overlapped: the statement of the update
\* delivered first (Ann) was executed after that of the second (Anna), and
\* the one record carries Ann's fields.
C12_Witness ==
    /\ upd[1].user = Ann /\ upd[2].user = Anna
    /\ pc[1] = "done" /\ pc[2] = "done"
    /\ \E r \in users :
        /\ r.telegram_id = 42
        /\ ProfileOf(r, Ann)
        /\ r.updated_at > r.created_at

\* The step in which run_polling calls the shutdown hook.
ShutdownCalled ==
    mainpc \in {"polling", "stopped"} /\ mainpc' \in {"closing", "except"}

\* C13: shutdown called with _db_pool unset raises nothing, closes nothing
\* and changes no state; called with a pool held it calls close on that
\* pool (and on no other), and that pool is closed when shutdown returns.
C13_ShutdownSafe ==
    /\ [](mainpc = "except" => \A p \in 1..Len(pools) : pools[p] # "closing")
    /\ [][ShutdownCalled =>
            IF _db_pool = NoPool
            THEN /\ mainpc' = "except"
                 /\ UNCHANGED <<envVars, outcome, exitCode, poolVars, coVars,
                                updVars, storeVars>>
            ELSE /\ mainpc' = "closing"
                 /\ pools'[_db_pool] = "closing"
                 /\ \A p \in 1..Len(pools) : p # _db_pool => pools'[p] = pools[p]
                 /\ UNCHANGED outcome]_vars
    /\ [][mainpc = "closing" /\ mainpc' = "except" =>
            /\ \A p \in 1..Len(pools) :
                pools'[p] = IF pools[p] = "closing" THEN "closed" ELSE pools[p]
            /\ UNCHANGED outcome]_vars

\* shutdown has returned in a run in which no pool was ever acquired.
C13_Witness ==
    /\ mainpc = "except"
    /\ _db_pool = NoPool
    /\ pools = <<>>
    /\ pc[InitCaller] = "raised"

\* C14: against a reachable store init_db does not fail because the table
\* or the index exists already (each statement can succeed whether or not
\* it does), and its statements leave the rows of users as they are.
C14_InitDbIdempotent ==
    /\ [](pc[InitCaller] = "create_table" =>
            ENABLED (create_table /\ pc'[InitCaller] = "create_index"))
    /\ [](pc[InitCaller] = "create_index" =>
            ENABLED (create_index /\ pc'[InitCaller] = "done"))
    /\ [][pc[InitCaller] \in {"create_table", "create_index"}
            /\ pc'[InitCaller] # pc[InitCaller] =>
                UNCHANGED <<users, nextSerial>>]_vars

\* init_db has run to its end on a store whose table and index existed and
\* held a row, and the row is there.
C14_Witness ==
    /\ pc[InitCaller] = "done"
    /\ OldRow \in users

\* C15: when shutdown has returned, every pool that create_pool returned
\* during the run is closed.
C15_AllPoolsClosed ==
    mainpc = "except" => \A p \in 1..Len(pools) : pools[p] = "closed"

\* C16: _db_pool is unset or refers to a pool that create_pool returned; a
\* get_db_pool call that fails (DATABASE_URL missing, or both create_pool
\* attempts failed) leaves _db_pool as it was; and a call that finds
\* _db_pool unset with DATABASE_URL set attempts the establishment.
C16_FailureNotMemoized ==
    /\ [](_db_pool # NoPool => _db_pool \in 1..Len(pools))
    /\ [][mainpc' # "exited" =>
            \A c \in Callers :
                /\ pc[c] \in {"get_db_pool", "create_default", "create_relaxed"}
                        /\ pc'[c] \in {"logged", "raised"} =>
                    UNCHANGED <<_db_pool, pools>>
                /\ pc[c] = "get_db_pool" /\ pc'[c] # pc[c]
                        /\ _db_pool = NoPool /\ database_url =>
                    /\ pc'[c] = "create_default"
                    /\ attempts'[c] = [default |-> 1, relaxed |-> 0]]_vars

\* init_db failed in both create_pool attempts, _db_pool is still unset,
\* and the get_db_pool call of a later task is attempting the establishment.
C16_Witness ==
    /\ pc[InitCaller] = "raised"
    /\ err[InitCaller] = "OSError"
    /\ _db_pool = NoPool
    /\ \E u \in Updates : pc[u] = "create_default"

\* C17: once shutdown has called close, _db_pool refers to a pool that is
\* closing or closed, so that a get_db_pool call made from then on returns
\* a pool on which the upsert can only fail.
C17_ClosedPoolKept ==
    mainpc \in {"closing", "except"} /\ _db_pool # NoPool =>
        pools[_db_pool] # "open"

\* Update u has been delivered and has no effective user.
NoEffectiveUser(u) == upd[u].kind # "none" /\ upd[u].user = NoUser

\* C18: the task of an update without effective user never executes a
\* statement, no step of it changes the users table, and no exception
\* leaves its save_user_async.
C18_NoUserNoWrite ==
    /\ [](\A u \in Updates : NoEffectiveUser(u) => pc[u] \notin {"done", "raised"})
    /\ [][\A u \in Updates :
            NoEffectiveUser(u) /\ pc'[u] # pc[u] =>
                UNCHANGED <<users, nextSerial>>]_vars

\* The task of an update without effective user got a connection and
\* logged the AttributeError of user.id.
C18_Witness ==
    \E u \in Updates :
        /\ NoEffectiveUser(u)
        /\ pc[u] = "logged"
        /\ err[u] = "AttributeError"

====
